---- MODULE Spec2Model ----
(***************************************************************************)
(* Model of decorate-gpx: the waypoint sampler of parse_gpx.py             *)
(* (parse_gpx_file -> process_waypoints -> get_wind_data -> sleep ->       *)
(* process_point) and of readgpx.py (the loop of main).                    *)
(*                                                                         *)
(* Timestamps are minutes since midnight of the track's day.  A raw point  *)
(* whose <time> element is absent has time NoTime.  Python's None for      *)
(* last_processed_time is NoTime as well.  Floats 0.0 are the integer 0.   *)
(* Every raw point k of the input lies at its own position (lat = k), so   *)
(* an output record identifies the input point it was made from.           *)
(***************************************************************************)
EXTENDS Integers, Sequences, FiniteSets, TLC

VARIABLES
    variant,              \* which script runs: "parse_gpx" or "readgpx"
    points,               \* the points of the GPX file, in file order
    min_time_diff,        \* the minimum spacing D, in minutes
    waypoints,            \* the list the sampling loop iterates
    pc,                   \* position of the single thread of control
    i,                    \* index of the loop's current waypoint
    last_processed_time,  \* the loop's local of that name (NoTime: None)
    forecast,             \* the local holding get_wind_data's result
    features,             \* parse_gpx.py's module-level list
    printed,              \* what readgpx.py's process_point printed
    calls,                \* the blocking calls issued in this run, in order
    responses,            \* what the provider answered in this run, in order
    run                   \* how many times the pipeline was started

vars == <<variant, points, min_time_diff, waypoints, pc, i,
          last_processed_time, forecast, features, printed, calls,
          responses, run>>

-----------------------------------------------------------------------------
(* Bounds of the model *)

MaxLen == 3
MaxRuns == 2

(* Program constants *)

every == 120
ReadGpxMinutes == 15
NoTime == -1

Times == {0, 10, 130}
Durations == {0, every}

pressure_levels ==
    << [key |-> "1000hPa", alt |-> 110],
       [key |-> "975hPa",  alt |-> 320],
       [key |-> "950hPa",  alt |-> 500],
       [key |-> "925hPa",  alt |-> 800],
       [key |-> "900hPa",  alt |-> 1000],
       [key |-> "850hPa",  alt |-> 1500],
       [key |-> "700hPa",  alt |-> 3000],
       [key |-> "600hPa",  alt |-> 4200],
       [key |-> "500hPa",  alt |-> 5500] >>

LevelKeys == {pressure_levels[n].key : n \in DOMAIN pressure_levels}

AltOf(key) ==
    LET n == CHOOSE m \in DOMAIN pressure_levels : pressure_levels[m].key = key
    IN  pressure_levels[n].alt

-----------------------------------------------------------------------------
(* The input: every sequence of at most MaxLen points, in any order of     *)
(* time, each with or without a timestamp.                                 *)

RawPoint(k, t) == [lat |-> k, lon |-> k + 10, elevation |-> 0, time |-> t]

Inputs ==
    UNION { { [k \in 1..n |-> RawPoint(k, ts[k])] :
                ts \in [1..n -> Times \cup {NoTime}] } : n \in 0..MaxLen }

-----------------------------------------------------------------------------
(* The weather provider.  A payload carries an hourly time axis and, per   *)
(* level, one wind speed and one wind direction for each hour of the axis. *)
(* FullAxis holds every hour a point of Times falls in; GapAxis lacks the  *)
(* last of them.                                                           *)

FullAxis == <<0, 60, 120>>
GapAxis == <<0, 60>>

SpeedAt(key, hour) == AltOf(key) \div 10 + hour \div 60 + 1
DirectionAt(key, hour) == (AltOf(key) \div 100 + hour) % 360

Payload(axis) ==
    [hourly |->
        [time           |-> axis,
         wind_speed     |-> [l \in LevelKeys |->
                               [n \in DOMAIN axis |-> SpeedAt(l, axis[n])]],
         wind_direction |-> [l \in LevelKeys |->
                               [n \in DOMAIN axis |-> DirectionAt(l, axis[n])]]]]

Exceptions == {"ConnectionError", "HTTPError", "JSONDecodeError"}

Responses ==
    { [status |-> "ok", body |-> Payload(axis), exc |-> ""] :
          axis \in {FullAxis, GapAxis} }
    \cup
    { [status |-> "error", body |-> Payload(<<>>), exc |-> e] : e \in Exceptions }

-----------------------------------------------------------------------------
(* Python values a forecast can be *)

PyNone == [type |-> "None"]
PyDict(body) == [type |-> "dict", dict |-> body]
PyTuple(items) == [type |-> "tuple", items |-> items]

-----------------------------------------------------------------------------
(* parse_gpx.py *)

\* Mutant: `except requests.ConnectionError` in place of `except Exception`
CaughtConnectionOnly(exc) == exc = "ConnectionError"

\* `except Exception` of get_wind_data: every exception of the fetch is caught
Caught(exc) == exc \in Exceptions

\* Mutant: the payload unwrapped to its "hourly" member before it is returned
get_wind_data_hourly(resp) ==
    IF resp.status = "ok"
    THEN [raised |-> FALSE, value |-> PyDict(resp.body.hourly)]
    ELSE [raised |-> FALSE, value |-> PyTuple(<<0, 0>>)]

\* What get_wind_data returns for a provider response, or that it raised
get_wind_data(resp) ==
    IF resp.status = "ok"
    THEN [raised |-> FALSE, value |-> PyDict(resp.body)]
    ELSE IF Caught(resp.exc)
         THEN [raised |-> FALSE, value |-> PyTuple(<<0, 0>>)]
         ELSE [raised |-> TRUE, value |-> PyNone]

\* Mutant: `>` in place of `>=`
ShouldProcessStrict(last, current_time, D) ==
    last = NoTime \/ current_time - last > D

\* Mutant: the timestamp itself compared, the reference not subtracted
ShouldProcessNoReference(last, current_time, D) ==
    last = NoTime \/ current_time >= D

\* The selection test of the sampling loop; last = NoTime is None
ShouldProcess(last, current_time, D) ==
    last = NoTime \/ current_time - last >= D

\* A <wpt> with a usable <time> element
HasTime(p) == p.time # NoTime

\* Mutant: the `continue` for a missing <time> dropped
parse_gpx_file_keep_all(pts) == pts

\* The waypoints parse_gpx_file returns: the points without <time> are skipped
parse_gpx_file(pts) == SelectSeq(pts, HasTime)

\* datetime.isoformat(): the timestamp rendered as hours and minutes
isoformat(t) == [hh |-> t \div 60, mm |-> t % 60]

\* The feature process_point builds for a selected waypoint
Feature(wp, fc) ==
    [geometry   |-> [type |-> "Point",
                     coordinates |-> <<wp.lon, wp.lat, wp.elevation>>],
     properties |-> [time |-> isoformat(wp.time), forecast |-> fc]]

\* Mutant: features.insert(0, feature)
InsertFeatureFirst(fs, f) == <<f>> \o fs

\* features.append(feature)
AppendFeature(fs, f) == Append(fs, f)

\* Mutant: the sleep dropped
NoPacingDelay(cs) == cs

\* sleep(0.5) after the fetch
PacingDelay(cs) == Append(cs, "sleep")

\* Mutant: one requests.get per pressure level
IssueFetchPerLevel(cs) == cs \o [n \in DOMAIN pressure_levels |-> "get"]

\* requests.get(url, params=params): one call carrying every level's variables
IssueFetch(cs) == Append(cs, "get")

-----------------------------------------------------------------------------
(* readgpx.py *)

\* `if not current_time: continue`
SkipPoint(p) == p.time = NoTime

\* The line process_point prints
PrintedLine(p) ==
    [lat |-> p.lat, lon |-> p.lon, alt |-> p.elevation, time |-> p.time]

-----------------------------------------------------------------------------
Init ==
    /\ variant \in {"parse_gpx", "readgpx"}
    /\ points \in Inputs
    /\ min_time_diff \in (IF variant = "readgpx" THEN {ReadGpxMinutes} ELSE Durations)
    /\ waypoints = <<>>
    /\ pc = "main"
    /\ i = 1
    /\ last_processed_time = NoTime
    /\ forecast = PyNone
    /\ features = <<>>
    /\ printed = <<>>
    /\ calls = <<>>
    /\ responses = <<>>
    /\ run = 1

\* parse_gpx.py main: waypoints = parse_gpx_file(gpx_file), then the loop starts
ParseGpx ==
    /\ pc = "main"
    /\ variant = "parse_gpx"
    /\ waypoints' = parse_gpx_file(points)
    /\ pc' = "loop"
    /\ UNCHANGED <<variant, points, min_time_diff, i, last_processed_time,
                   forecast, features, printed, calls, responses, run>>

\* readgpx.py main: gpxpy.parse hands over every point of every segment
ReadGpxParse ==
    /\ pc = "main"
    /\ variant = "readgpx"
    /\ waypoints' = points
    /\ pc' = "loop"
    /\ UNCHANGED <<variant, points, min_time_diff, i, last_processed_time,
                   forecast, features, printed, calls, responses, run>>

\* process_waypoints: one waypoint of the for loop, up to the call of
\* requests.get.  A waypoint without a time raises (None has no date(), and
\* None - datetime is a TypeError), which main turns into exit(1).
ProcessWaypointsNext ==
    /\ pc = "loop"
    /\ variant = "parse_gpx"
    /\ i <= Len(waypoints)
    /\ LET wp == waypoints[i] IN
         IF wp.time = NoTime
         THEN /\ pc' = "aborted"
              /\ UNCHANGED <<i, calls>>
         ELSE IF ShouldProcess(last_processed_time, wp.time, min_time_diff)
              THEN /\ pc' = "fetching"
                   /\ calls' = IssueFetch(calls)
                   /\ UNCHANGED i
              ELSE /\ i' = i + 1
                   /\ UNCHANGED <<pc, calls>>
    /\ UNCHANGED <<variant, points, min_time_diff, waypoints,
                   last_processed_time, forecast, features, printed,
                   responses, run>>

\* get_wind_data: the provider answers, and the answer or the sentinel is
\* returned
GetWindDataReturn ==
    /\ pc = "fetching"
    /\ \E resp \in Responses :
         LET r == get_wind_data(resp) IN
           /\ responses' = Append(responses, resp)
           /\ forecast' = r.value
           /\ pc' = IF r.raised THEN "aborted" ELSE "sleep"
    /\ UNCHANGED <<variant, points, min_time_diff, waypoints, i,
                   last_processed_time, features, printed, calls, run>>

\* get_wind_data: the provider never answers; requests.get(url, params=params)
\* has no timeout and blocks for good
GetWindDataStall ==
    /\ pc = "fetching"
    /\ pc' = "stalled"
    /\ UNCHANGED <<variant, points, min_time_diff, waypoints, i,
                   last_processed_time, forecast, features, printed, calls,
                   responses, run>>

\* process_waypoints: sleep(0.5)
Sleep ==
    /\ pc = "sleep"
    /\ calls' = PacingDelay(calls)
    /\ pc' = "callback"
    /\ UNCHANGED <<variant, points, min_time_diff, waypoints, i,
                   last_processed_time, forecast, features, printed,
                   responses, run>>

\* process_waypoints: callback(...) = process_point, then
\* last_processed_time = current_time and the next iteration
Callback ==
    /\ pc = "callback"
    /\ features' = AppendFeature(features, Feature(waypoints[i], forecast))
    /\ last_processed_time' = waypoints[i].time
    /\ i' = i + 1
    /\ pc' = "loop"
    /\ UNCHANGED <<variant, points, min_time_diff, waypoints, forecast,
                   printed, calls, responses, run>>

\* readgpx.py main: one point of the innermost for loop
ReadGpxNext ==
    /\ pc = "loop"
    /\ variant = "readgpx"
    /\ i <= Len(waypoints)
    /\ LET p == waypoints[i] IN
         IF SkipPoint(p)
         THEN UNCHANGED <<printed, last_processed_time>>
         ELSE IF ShouldProcess(last_processed_time, p.time, min_time_diff)
              THEN /\ printed' = Append(printed, PrintedLine(p))
                   /\ last_processed_time' = p.time
              ELSE UNCHANGED <<printed, last_processed_time>>
    /\ i' = i + 1
    /\ UNCHANGED <<variant, points, min_time_diff, waypoints, pc, forecast,
                   features, calls, responses, run>>

\* The for loop is exhausted; parse_gpx.py main dumps FeatureCollection(features)
LoopExit ==
    /\ pc = "loop"
    /\ i > Len(waypoints)
    /\ pc' = "done"
    /\ UNCHANGED <<variant, points, min_time_diff, waypoints, i,
                   last_processed_time, forecast, features, printed, calls,
                   responses, run>>

\* A caller in the same process runs process_waypoints(waypoints,
\* process_point) again: the locals start afresh, the module-level features
\* list is the one of the run before.
Rerun ==
    /\ pc = "done"
    /\ variant = "parse_gpx"
    /\ run < MaxRuns
    /\ run' = run + 1
    /\ i' = 1
    /\ last_processed_time' = NoTime
    /\ forecast' = PyNone
    /\ calls' = <<>>
    /\ responses' = <<>>
    /\ pc' = "loop"
    /\ UNCHANGED <<variant, points, min_time_diff, waypoints, features, printed>>

Next ==
    \/ ParseGpx
    \/ ReadGpxParse
    \/ ProcessWaypointsNext
    \/ GetWindDataReturn
    \/ GetWindDataStall
    \/ Sleep
    \/ Callback
    \/ ReadGpxNext
    \/ LoopExit

\* One run per process, as main does
Spec == Init /\ [][Next]_vars

\* The single thread always takes its next step when it has one
FairSpec == Spec /\ WF_vars(Next)

NextRerun == Next \/ Rerun

\* The pipeline called repeatedly in one process
SpecRerun == Init /\ [][NextRerun]_vars

-----------------------------------------------------------------------------
(* What the properties below speak about *)

TimeOf(pts) == [k \in DOMAIN pts |-> pts[k].time]

Max(S) == CHOOSE m \in S : \A n \in S : n <= m

\* Minutes of a timestamp rendered by isoformat
FromIso(r) == r.hh * 60 + r.mm

\* The input points the outputs so far were made from, in output order
Emitted ==
    IF variant = "readgpx"
    THEN [k \in DOMAIN printed |-> printed[k].lat]
    ELSE [k \in DOMAIN features |-> features[k].geometry.coordinates[2]]

EmittedIds == {Emitted[k] : k \in DOMAIN Emitted}

\* The timestamp the k-th output carries
EmittedTime(k) ==
    IF variant = "readgpx"
    THEN printed[k].time
    ELSE FromIso(features[k].properties.time)

\* How many points of the input the loop has dealt with
Consumed ==
    IF pc = "main" THEN 0
    ELSE IF i > Len(waypoints) THEN Len(points)
    ELSE waypoints[i].lat - 1

\* Whether the loop is between the fetch for waypoints[i] and its callback
InProgress == pc \in {"fetching", "stalled", "sleep", "callback"}

\* The selection rule by itself: the indices selected among the first n
\* timestamps of ts for spacing D, a timestamp being selected when it is the
\* first one or lies at least D after the one selected last
RECURSIVE Sel(_, _, _)
Sel(ts, D, n) ==
    IF n = 0 THEN <<>>
    ELSE LET prev == Sel(ts, D, n - 1) IN
         IF ts[n] = NoTime THEN prev
         ELSE IF prev = <<>> \/ ts[n] - ts[prev[Len(prev)]] >= D
              THEN Append(prev, n)
              ELSE prev

IsTimed(p) == p.time # NoTime
WithoutUntimed(pts) == SelectSeq(pts, IsTimed)

FetchCount == Cardinality({k \in DOMAIN calls : calls[k] = "get"})

\* The forecast resolved for the k-th fetch of the run
ForecastOf(k) ==
    IF k <= Len(features) THEN features[k].properties.forecast ELSE forecast

\* The timestamp the k-th fetch of the run was made for
QueryTime(k) ==
    IF k <= Len(features) THEN FromIso(features[k].properties.time)
    ELSE waypoints[i].time

QueryHour(t) == (t \div 60) * 60

HasHour(axis, h) == \E n \in DOMAIN axis : axis[n] = h
IndexOfHour(axis, h) == CHOOSE n \in DOMAIN axis : axis[n] = h

\* The sentinel, as one pair or as one pair for every level
IsSentinel(f) ==
    \/ f.type = "tuple" /\ f.items = <<0, 0>>
    \/ f.type = "dict" /\ DOMAIN f.dict = LevelKeys
         /\ \A l \in LevelKeys : f.dict[l] = <<0, 0>>

\* A forecast holding, for every level, the speed and direction of `body` at
\* index n of its axis and nothing else
IsResolvedAt(f, body, n) ==
    /\ f.type = "dict"
    /\ DOMAIN f.dict = LevelKeys
    /\ \A l \in LevelKeys :
         f.dict[l] = <<body.hourly.wind_speed[l][n], body.hourly.wind_direction[l][n]>>

-----------------------------------------------------------------------------
\* C1: among the points dealt with so far, a timestamped point has been
\* selected if and only if no point was selected before it or its timestamp
\* lies at least min_time_diff after that of the most recently selected point
\* before it (not the previous point of the input).
C1_SelectionRule ==
    \A k \in 1..Consumed :
        points[k].time # NoTime =>
            LET prior == {j \in EmittedIds : j < k} IN
            (k \in EmittedIds) <=>
                (prior = {} \/ points[k].time - points[Max(prior)].time >= min_time_diff)

\* C1 witness: scenario A has run to its end: offsets 0, 10, 130 with D = 120
\* gave the points at offsets 0 and 130.
C1_Witness ==
    /\ pc = "done"
    /\ variant = "parse_gpx"
    /\ min_time_diff = 120
    /\ TimeOf(points) = <<0, 10, 130>>
    /\ Emitted = <<1, 3>>

\* C2: any two consecutive selected timestamps differ by at least
\* min_time_diff.
C2_MinSpacing ==
    \A k \in 1..(Len(Emitted) - 1) :
        EmittedTime(k + 1) - EmittedTime(k) >= min_time_diff

\* C2 witness: two points were selected with a positive spacing and a point
\* between them was dropped.
C2_Witness ==
    /\ min_time_diff > 0
    /\ Len(Emitted) >= 2
    /\ Emitted[2] > Emitted[1] + 1
    /\ points[Emitted[1] + 1].time # NoTime

\* C3: a point without a timestamp is never selected and raises no error, the
\* last-selected reference is the time of the last selected point whatever
\* untimed points were passed, and at the end the selection is the one the
\* rule gives for the input with the untimed points removed.
C3_UntimedSkipped ==
    /\ pc # "aborted"
    /\ \A k \in EmittedIds : points[k].time # NoTime
    /\ last_processed_time =
          (IF Emitted = <<>> THEN NoTime ELSE points[Emitted[Len(Emitted)]].time)
    /\ pc = "done" =>
          LET W   == WithoutUntimed(points)
              idx == Sel(TimeOf(W), min_time_diff, Len(W))
          IN  Emitted = [k \in DOMAIN idx |-> W[idx[k]].lat]

\* C3 witness: a run has ended on an input with an untimed point between two
\* timed ones, both of which were selected.
C3_Witness ==
    /\ pc = "done"
    /\ Len(points) = 3
    /\ points[1].time # NoTime
    /\ points[2].time = NoTime
    /\ points[3].time # NoTime
    /\ Emitted = <<1, 3>>

C6_OneFeaturePerSelected ==
    (pc = "done" /\ variant = "parse_gpx") =>
        LET idx == Sel(TimeOf(points), min_time_diff, Len(points)) IN
        /\ Len(features) = Len(idx)
        /\ \A k \in DOMAIN idx :
             /\ features[k].geometry.coordinates =
                   <<points[idx[k]].lon, points[idx[k]].lat, points[idx[k]].elevation>>
             /\ features[k].properties.time = isoformat(points[idx[k]].time)

\* C6 witness: a run ended with two features, the first of a failed fetch.
C6_Witness ==
    /\ pc = "done"
    /\ Len(features) = 2
    /\ responses[1].status = "error"
    /\ responses[2].status = "ok"

\* C7: the fetches parse_gpx.py has issued so far are one for each waypoint
\* selected so far, the one in progress included, and none when no point has
\* a timestamp (readgpx.py fetches nothing).
C7_OneFetchPerSelected ==
    /\ FetchCount =
          (IF variant = "parse_gpx"
           THEN Len(Sel(TimeOf(points), min_time_diff, Consumed))
           ELSE 0)
          + (IF InProgress THEN 1 ELSE 0)
    /\ (\A k \in DOMAIN points : points[k].time = NoTime) => FetchCount = 0

\* C7 witness: a run ended after two fetches, the first of which failed, and
\* with a waypoint that was not selected.
C7_Witness ==
    /\ pc = "done"
    /\ FetchCount = 2
    /\ responses[1].status = "error"
    /\ Len(waypoints) = 3

\* C8: every fetch but the first comes right after a pacing delay, every
\* answered fetch is followed by one before anything else is called, and at
\* most one fetch is outstanding.
C8_PacedFetches ==
    /\ \A k \in 2..Len(calls) : calls[k] = "get" => calls[k - 1] = "sleep"
    /\ \A k \in 1..(Len(calls) - 1) : calls[k] = "get" => calls[k + 1] = "sleep"
    /\ FetchCount - Len(responses) \in {0, 1}
    /\ FetchCount - Len(responses) = 1 <=> pc \in {"fetching", "stalled"}

\* C8 witness: a second fetch is outstanding after a first one that failed.
C8_Witness ==
    /\ pc = "fetching"
    /\ calls = <<"get", "sleep", "get">>
    /\ responses[1].status = "error"

\* C9: every run eventually reaches Done, whatever the provider does.
C9_EventuallyDone == <>(pc = "done")

\* C10: at the end of every run the collection holds the features of the
\* waypoints selected in that run and no others.
C10_CollectionOfThisRun ==
    (pc = "done" /\ variant = "parse_gpx") =>
        LET idx == Sel(TimeOf(points), min_time_diff, Len(points)) IN
        features = [k \in DOMAIN idx |->
                       Feature(points[idx[k]], get_wind_data(responses[k]).value)]

====
